---- MODULE Spec2Model ----
(***************************************************************************)
(* Goniometer model construction of dxtbx (src/src/dxtbx/model/            *)
(* goniometer.py): GoniometerFactory.from_phil and its single-axis and     *)
(* multi-axis workers, from_dict, imgCIF_H, kappa and multi_axis; and the  *)
(* class-level caches of the format adapters FormatHDF5ESRF,               *)
(* FormatHDF5ESRFJungfrau4M and FormatNXmxStillsWithScan                   *)
(* (src/src/dxtbx/format/).                                                *)
(*                                                                         *)
(* Python values are encoded as follows.                                   *)
(*   None           the empty tuple <<>>; a set value v is <<v>>           *)
(*   list / flex    a sequence                                             *)
(*   dict           a function whose DOMAIN is the set of keys             *)
(*   raise          a record [kind |-> "error", error |-> site]            *)
(* Every raise site of the source has its own error name; ErrorKind maps   *)
(* it to the error taxonomy of the specification.                          *)
(***************************************************************************)
EXTENDS Integers, Sequences, FiniteSets, TLC

VARIABLES params, reference, header, kargs, margs, dargs, call, ret,
          cache, instances, reads

\* the class-level caches of the format adapters, the adapter instances
\* opened so far, and how often each file's data was read into a cache
adapters == <<cache, instances, reads>>

vars ==
  <<params, reference, header, kargs, margs, dargs, call, ret, adapters>>

----------------------------------------------------------------------------
(* Python values *)

None == <<>>

Some(v) == <<v>>

IsNone(o) == o = None

Get(o) == o[1]

\* bool(x) of an optional list: None and the empty list are falsy
Truthy(o) == ~IsNone(o) /\ Len(Get(o)) > 0

\* bool(x) of an optional string: None and the empty string are falsy
TruthyStr(o) == ~IsNone(o) /\ Get(o) # ""

Raise(site) == [kind |-> "error", error |-> site]

IsError(r) == r.kind = "error"

Reverse(s) == [i \in 1..Len(s) |-> s[Len(s) + 1 - i]]

\* [-x for x in v]
NegVec(v) == [j \in 1..Len(v) |-> 0 - v[j]]

\* [[-x for x in v] for v in axes]
NegAxes(axes) == [i \in 1..Len(axes) |-> NegVec(axes[i])]

\* values[i*3 : i*3+3] for i in range(len(values) // 3)
Triples(values) ==
  [i \in 1..(Len(values) \div 3) |->
     <<values[3 * i - 2], values[3 * i - 1], values[3 * i]>>]

----------------------------------------------------------------------------
(* The model classes of dxtbx_model_ext (C++, not part of the Python       *)
(* sources): modelled from the data model of the specification.            *)

Identity == <<1, 0, 0, 0, 1, 0, 0, 0, 1>>

\* Goniometer(): rotation axis (1,0,0), identity fixed and setting rotation
Goniometer ==
  [kind |-> "single", rotation_axis |-> <<1, 0, 0>>,
   fixed_rotation |-> Identity, setting_rotation |-> Identity]

\* scan_axis is not compared with the number of axes
MultiAxisGoniometer_any_scan_axis(axes, angles, names, scan_axis) ==
  IF /\ Len(axes) >= 1
     /\ Len(angles) = Len(axes)
     /\ Len(names) = Len(axes)
  THEN [kind |-> "multi", axes |-> axes, angles |-> angles, names |-> names,
        scan_axis |-> scan_axis]
  ELSE Raise("ModelInvariant")

\* MultiAxisGoniometer(axes, angles, names, scan_axis): N >= 1 axes, one
\* angle and one name per axis, 0 <= scan_axis < N
MultiAxisGoniometer(axes, angles, names, scan_axis) ==
  IF /\ Len(axes) >= 1
     /\ Len(angles) = Len(axes)
     /\ Len(names) = Len(axes)
     /\ 0 <= scan_axis
     /\ scan_axis < Len(axes)
  THEN [kind |-> "multi", axes |-> axes, angles |-> angles, names |-> names,
        scan_axis |-> scan_axis]
  ELSE Raise("ModelInvariant")

set_rotation_axis_datum(g, axis) == [g EXCEPT !.rotation_axis = axis]

set_fixed_rotation(g, m) == [g EXCEPT !.fixed_rotation = m]

set_setting_rotation(g, m) == [g EXCEPT !.setting_rotation = m]

\* the multi-axis mutators reject a length that differs from the current one
set_axes(g, axes) ==
  IF Len(axes) = Len(g.axes) THEN [g EXCEPT !.axes = axes]
  ELSE Raise("ModelInvariant")

set_angles(g, angles) ==
  IF Len(angles) = Len(g.angles) THEN [g EXCEPT !.angles = angles]
  ELSE Raise("ModelInvariant")

set_names(g, names) ==
  IF Len(names) = Len(g.names) THEN [g EXCEPT !.names = names]
  ELSE Raise("ModelInvariant")

----------------------------------------------------------------------------
(* GoniometerFactory.single_axis_goniometer_from_phil                      *)
(* An outcome is [ret, params, reference, route]: the value returned or    *)
(* the error raised, the option object as the call leaves it, the          *)
(* reference object as the call leaves it (None when none was passed) and  *)
(* the worker the call was routed to.                                      *)

Outcome(r, p, ref, route) ==
  [ret |-> r, params |-> p, reference |-> ref, route |-> route]

\* lines 98-100: copy axes into axis when axis is None (writes params)
single_axis_copy_axes(p) ==
  IF IsNone(p.axis) THEN [p EXCEPT !.axis = p.axes] ELSE p

\* the axis is negated before the supplied axis is written
single_axis_set_parameters_invert_first(p, g0) ==
  LET g1 == IF p.invert_rotation_axis = TRUE
            THEN set_rotation_axis_datum(g0, NegVec(g0.rotation_axis))
            ELSE g0
      g2 == IF ~IsNone(p.axis)
            THEN set_rotation_axis_datum(g1, Get(p.axis)) ELSE g1
      g3 == IF ~IsNone(p.fixed_rotation)
            THEN set_fixed_rotation(g2, Get(p.fixed_rotation)) ELSE g2
  IN  IF ~IsNone(p.setting_rotation)
      THEN set_setting_rotation(g3, Get(p.setting_rotation)) ELSE g3

\* lines 118-127: the writes to the goniometer
single_axis_set_parameters(p, g0) ==
  LET g1 == IF ~IsNone(p.axis)
            THEN set_rotation_axis_datum(g0, Get(p.axis)) ELSE g0
      g2 == IF ~IsNone(p.fixed_rotation)
            THEN set_fixed_rotation(g1, Get(p.fixed_rotation)) ELSE g1
      g3 == IF ~IsNone(p.setting_rotation)
            THEN set_setting_rotation(g2, Get(p.setting_rotation)) ELSE g2
  IN  IF p.invert_rotation_axis = TRUE
      THEN set_rotation_axis_datum(g3, NegVec(g3.rotation_axis))
      ELSE g3

\* the goniometer is written before angles and names are checked
single_axis_goniometer_from_phil_write_first(p0, ref) ==
  LET p == single_axis_copy_axes(p0)
      g == single_axis_set_parameters(
             p, IF IsNone(ref) THEN Goniometer ELSE Get(ref))
      written == IF IsNone(ref) THEN None ELSE Some(g)
  IN  IF ~IsNone(p.axis) /\ Len(Get(p.axis)) # 3
      THEN Outcome(Raise("SingleAxisRequires3AxisValues"), p, ref, "single")
      ELSE IF ~IsNone(p.angles)
      THEN Outcome(Raise("SingleAxisRequiresAnglesNone"), p, written, "single")
      ELSE IF ~IsNone(p.names)
      THEN Outcome(Raise("SingleAxisRequiresNamesNone"), p, written, "single")
      ELSE Outcome(g, p, written, "single")

single_axis_goniometer_from_phil(p0, ref) ==
  LET p == single_axis_copy_axes(p0)
  IN  IF ~IsNone(p.axis) /\ Len(Get(p.axis)) # 3
      THEN Outcome(Raise("SingleAxisRequires3AxisValues"), p, ref, "single")
      ELSE IF ~IsNone(p.angles)
      THEN Outcome(Raise("SingleAxisRequiresAnglesNone"), p, ref, "single")
      ELSE IF ~IsNone(p.names)
      THEN Outcome(Raise("SingleAxisRequiresNamesNone"), p, ref, "single")
      ELSE LET g == single_axis_set_parameters(
                      p, IF IsNone(ref) THEN Goniometer ELSE Get(ref))
           IN  Outcome(g, p, IF IsNone(ref) THEN None ELSE Some(g), "single")

----------------------------------------------------------------------------
(* GoniometerFactory.multi_axis_goniometer_from_phil *)

\* setting_rotation is not checked
multi_axis_check_params_no_setting(p) ==
  IF ~IsNone(p.axes) /\ Len(Get(p.axes)) % 3 # 0
  THEN Some("AxesNotMultipleOf3")
  ELSE IF ~IsNone(p.fixed_rotation)
  THEN Some("MultiAxisRequiresFixedRotationNone")
  ELSE None

\* lines 133-148: the checks shared by fresh construction and override;
\* None when they pass, else the error
multi_axis_check_params(p) ==
  IF ~IsNone(p.axes) /\ Len(Get(p.axes)) % 3 # 0
  THEN Some("AxesNotMultipleOf3")
  ELSE IF ~IsNone(p.fixed_rotation)
  THEN Some("MultiAxisRequiresFixedRotationNone")
  ELSE IF ~IsNone(p.setting_rotation)
  THEN Some("MultiAxisRequiresSettingRotationNone")
  ELSE None

\* a supplied scan_axis is ignored
multi_axis_fresh_scan_zero(p) ==
  IF IsNone(p.axes) THEN Raise("NoAxesSet")
  ELSE
    LET axes0 == Triples(Get(p.axes))
        axes == IF p.invert_rotation_axis = TRUE THEN NegAxes(axes0) ELSE axes0
        angles == IF ~IsNone(p.angles) THEN Get(p.angles)
                  ELSE [i \in 1..Len(axes) |-> 0]
        names == IF ~IsNone(p.names) THEN Get(p.names)
                 ELSE [i \in 1..Len(axes) |-> ""]
    IN  IF ~IsNone(p.angles) /\ Len(angles) # Len(axes)
        THEN Raise("NumberOfAnglesMustMatchAxes")
        ELSE IF ~IsNone(p.names) /\ Len(names) # Len(axes)
        THEN Raise("NumberOfNamesMustMatchAxes")
        ELSE MultiAxisGoniometer(axes, angles, names, 0)

\* lines 152-188: fresh construction (reference is None)
multi_axis_fresh(p) ==
  IF IsNone(p.axes) THEN Raise("NoAxesSet")
  ELSE
    LET axes0 == Triples(Get(p.axes))
        axes == IF p.invert_rotation_axis = TRUE THEN NegAxes(axes0) ELSE axes0
        angles == IF ~IsNone(p.angles) THEN Get(p.angles)
                  ELSE [i \in 1..Len(axes) |-> 0]
        names == IF ~IsNone(p.names) THEN Get(p.names)
                 ELSE [i \in 1..Len(axes) |-> ""]
        scan_axis == IF ~IsNone(p.scan_axis) THEN Get(p.scan_axis) ELSE 0
    IN  IF ~IsNone(p.angles) /\ Len(angles) # Len(axes)
        THEN Raise("NumberOfAnglesMustMatchAxes")
        ELSE IF ~IsNone(p.names) /\ Len(names) # Len(axes)
        THEN Raise("NumberOfNamesMustMatchAxes")
        ELSE MultiAxisGoniometer(axes, angles, names, scan_axis)

\* The override of a reference runs as a sequence of steps over
\* [g, err]: the reference object as written so far, and the error raised
\* (None while none was raised).  A step after a raise does nothing.
Write(st, r) ==
  IF IsError(r) THEN [st EXCEPT !.err = Some(r.error)] ELSE [st EXCEPT !.g = r]

Fail(st, site) == [st EXCEPT !.err = Some(site)]

\* lines 193-203
override_axes(st, p) ==
  IF ~IsNone(st.err) \/ IsNone(p.axes) THEN st
  ELSE LET axes == Triples(Get(p.axes))
       IN  IF Len(st.g.axes) # Len(axes)
           THEN Fail(st, "NumberOfAxesMustMatchCurrent")
           ELSE Write(st, set_axes(st.g, axes))

\* lines 206-210
override_invert(st, p) ==
  IF ~IsNone(st.err) \/ p.invert_rotation_axis # TRUE THEN st
  ELSE Write(st, set_axes(st.g, NegAxes(st.g.axes)))

\* only a longer `angles` is refused
override_angles_longer_only(st, p) ==
  IF ~IsNone(st.err) \/ IsNone(p.angles) THEN st
  ELSE IF Len(st.g.angles) < Len(Get(p.angles))
       THEN Fail(st, "NumberOfAnglesMustMatchCurrent")
       ELSE Write(st, set_angles(st.g, Get(p.angles)))

\* lines 213-219
override_angles(st, p) ==
  IF ~IsNone(st.err) \/ IsNone(p.angles) THEN st
  ELSE IF Len(st.g.angles) # Len(Get(p.angles))
       THEN Fail(st, "NumberOfAnglesMustMatchCurrent")
       ELSE Write(st, set_angles(st.g, Get(p.angles)))

\* lines 222-228
override_names(st, p) ==
  IF ~IsNone(st.err) \/ IsNone(p.names) THEN st
  ELSE IF Len(st.g.names) # Len(Get(p.names))
       THEN Fail(st, "NumberOfNamesMustMatchCurrent")
       ELSE Write(st, set_names(st.g, Get(p.names)))

\* `if params.goniometer.scan_axis:` in place of `is not None`
override_scan_axis_truthy(st, p) ==
  IF ~IsNone(st.err) \/ IsNone(p.scan_axis) \/ Get(p.scan_axis) = 0 THEN st
  ELSE Fail(st, "CanNotOverrideScanAxis")

\* lines 231-232
override_scan_axis(st, p) ==
  IF ~IsNone(st.err) \/ IsNone(p.scan_axis) THEN st
  ELSE Fail(st, "CanNotOverrideScanAxis")

\* lines 190-232: override of the reference g
multi_axis_override(p, g) ==
  override_scan_axis(
    override_names(
      override_angles(
        override_invert(
          override_axes([g |-> g, err |-> None], p), p), p), p), p)

multi_axis_goniometer_from_phil(p, ref) ==
  LET bad == multi_axis_check_params(p)
  IN  IF ~IsNone(bad) THEN Outcome(Raise(Get(bad)), p, ref, "multi")
      ELSE IF IsNone(ref) THEN Outcome(multi_axis_fresh(p), p, ref, "multi")
      ELSE LET st == multi_axis_override(p, Get(ref))
           IN  Outcome(IF IsNone(st.err) THEN st.g ELSE Raise(Get(st.err)),
                       p, Some(st.g), "multi")

----------------------------------------------------------------------------
(* GoniometerFactory.from_phil *)

\* line 242
from_phil_conflict(p) == Truthy(p.axis) /\ Truthy(p.axes)

\* `>= 3` in place of `> 3`
from_phil_route_three_is_multi(p, ref) ==
  IF ~IsNone(ref)
  THEN IF Get(ref).kind = "multi" THEN "multi" ELSE "single"
  ELSE IF Truthy(p.axes) /\ Len(Get(p.axes)) >= 3 THEN "multi"
  ELSE IF Truthy(p.axis) \/ Truthy(p.axes) THEN "single"
  ELSE "none"

\* lines 244-259: the worker a call is routed to
from_phil_route(p, ref) ==
  IF ~IsNone(ref)
  THEN IF Get(ref).kind = "multi" THEN "multi" ELSE "single"
  ELSE IF Truthy(p.axes) /\ Len(Get(p.axes)) > 3 THEN "multi"
  ELSE IF Truthy(p.axis) \/ Truthy(p.axes) THEN "single"
  ELSE "none"

\* the axis/axes check made after the worker has run
from_phil_check_last(p, ref) ==
  LET route == from_phil_route(p, ref)
      o == IF route = "multi" THEN multi_axis_goniometer_from_phil(p, ref)
           ELSE IF route = "single"
           THEN single_axis_goniometer_from_phil(p, ref)
           ELSE Outcome([kind |-> "none"], p, ref, "none")
  IN  IF from_phil_conflict(p)
      THEN Outcome(Raise("OnlyOneOfAxisOrAxes"), o.params, o.reference,
                   "conflict")
      ELSE o

from_phil(p, ref) ==
  IF from_phil_conflict(p)
  THEN Outcome(Raise("OnlyOneOfAxisOrAxes"), p, ref, "conflict")
  ELSE LET route == from_phil_route(p, ref)
       IN  IF route = "multi" THEN multi_axis_goniometer_from_phil(p, ref)
           ELSE IF route = "single" THEN single_axis_goniometer_from_phil(p, ref)
           ELSE Outcome([kind |-> "none"], p, ref, "none")

----------------------------------------------------------------------------
(* GoniometerFactory.from_dict                                             *)
(* d and t are None or Some(dictionary).                                   *)

\* Goniometer.from_dict and MultiAxisGoniometer.from_dict (dxtbx_model_ext):
\* the model deserialized from the dictionary, kept as the class and the
\* dictionary it was given
Goniometer_from_dict(joint) ==
  [kind |-> "deserialized", class |-> "Goniometer", d |-> joint]

MultiAxisGoniometer_from_dict(joint) ==
  [kind |-> "deserialized", class |-> "MultiAxisGoniometer", d |-> joint]

\* bool(t) of an optional dictionary: None and the empty dictionary are falsy
TruthyDict(o) == ~IsNone(o) /\ DOMAIN Get(o) # {}

\* joint = base.copy(); joint.update(d)
DictUpdate(base, d) ==
  [k \in (DOMAIN base) \cup (DOMAIN d) |->
     IF k \in DOMAIN d THEN d[k] ELSE base[k]]

\* lines 273-281; joint.update(None) raises TypeError
from_dict(d, t) ==
  IF IsNone(d) /\ IsNone(t) THEN [kind |-> "none"]
  ELSE LET base == IF TruthyDict(t) THEN Get(t) ELSE <<>>
       IN  IF IsNone(d) THEN Raise("TypeError")
           ELSE LET joint == DictUpdate(base, Get(d))
                IN  IF {"axes", "angles", "scan_axis"} \subseteq DOMAIN joint
                    THEN MultiAxisGoniometer_from_dict(joint)
                    ELSE Goniometer_from_dict(joint)

----------------------------------------------------------------------------
(* GoniometerFactory.make_multi_axis_goniometer, multi_axis, kappa *)

make_multi_axis_goniometer(axes, angles, names, scan_axis) ==
  MultiAxisGoniometer(axes, angles, names, scan_axis)

multi_axis(axes, angles, names, scan_axis) ==
  make_multi_axis_goniometer(axes, angles, names, scan_axis)

\* math.cos(alpha * math.pi / 180) and math.sin(...), kept symbolic
Cos(alpha) == [fn |-> "cos", deg |-> alpha]

Sin(alpha) == [fn |-> "sin", deg |-> alpha]

\* -s
Minus(x) == [fn |-> "minus", of |-> x]

\* only "omega" maps to index 2
make_kappa_goniometer_omega_only(alpha, omega, kappa, phi, direction, scan_axis) ==
  LET omega_axis == <<1, 0, 0>>
      phi_axis == <<1, 0, 0>>
      c == Cos(alpha)
      s == Sin(alpha)
      known == direction \in {"+y", "+z", "-y", "-z"}
      kappa_axis == IF direction = "+y" THEN <<c, s, 0>>
                    ELSE IF direction = "+z" THEN <<c, 0, s>>
                    ELSE IF direction = "-y" THEN <<c, Minus(s), 0>>
                    ELSE <<c, 0, Minus(s)>>
      scan == IF scan_axis = "omega" THEN 2 ELSE 0
  IN  IF ~known THEN Raise("InvalidDirection")
      ELSE make_multi_axis_goniometer(
             <<phi_axis, kappa_axis, omega_axis>>, <<phi, kappa, omega>>,
             <<"PHI", "KAPPA", "OMEGA">>, scan)

make_kappa_goniometer(alpha, omega, kappa, phi, direction, scan_axis) ==
  LET omega_axis == <<1, 0, 0>>
      phi_axis == <<1, 0, 0>>
      c == Cos(alpha)
      s == Sin(alpha)
      known == direction \in {"+y", "+z", "-y", "-z"}
      kappa_axis == IF direction = "+y" THEN <<c, s, 0>>
                    ELSE IF direction = "+z" THEN <<c, 0, s>>
                    ELSE IF direction = "-y" THEN <<c, Minus(s), 0>>
                    ELSE <<c, 0, Minus(s)>>
      scan == IF scan_axis = "phi" THEN 0 ELSE 2
  IN  IF ~known THEN Raise("InvalidDirection")
      ELSE make_multi_axis_goniometer(
             <<phi_axis, kappa_axis, omega_axis>>, <<phi, kappa, omega>>,
             <<"PHI", "KAPPA", "OMEGA">>, scan)

kappa(alpha, omega, kappa_angle, phi, direction, scan_axis) ==
  make_kappa_goniometer(alpha, omega, kappa_angle, phi, direction, scan_axis)

----------------------------------------------------------------------------
(* GoniometerFactory.imgCIF_H                                              *)
(* A header is [axis, scan]: the rows of the "axis" category, each         *)
(* [id, equipment, vector, depends_on], and the rows of the                *)
(* "diffrn_scan_axis" category, each [axis_id, angle_start,                *)
(* angle_increment].                                                       *)

EmptyDict == <<>>

Put(d, k, v) == [x \in (DOMAIN d) \cup {k} |-> IF x = k THEN v ELSE d[x]]

\* d.get(k)
DictGet(d, k) == IF k \in DOMAIN d THEN Some(d[k]) ELSE None

\* lines 395-412: the goniometer axes and their dependants
RECURSIVE read_axis_rows(_, _, _)
read_axis_rows(rows, i, st) ==
  IF i > Len(rows) THEN st
  ELSE LET row == rows[i]
       IN  read_axis_rows(rows, i + 1,
             IF row.equipment = "goniometer"
             THEN [axis_vectors |-> Put(st.axis_vectors, row.id, row.vector),
                   dependants |-> Put(st.dependants, row.depends_on, row.id)]
             ELSE st)

\* a second nonzero increment replaces the scan axis instead of raising
scan_row_last_wins(st, row, axis_vectors) ==
  IF row.axis_id \notin DOMAIN axis_vectors THEN st
  ELSE LET angles == Put(st.angles, row.axis_id, row.angle_start)
       IN  IF row.angle_increment # 0
           THEN [st EXCEPT !.angles = angles, !.scan_axis = Some(row.axis_id)]
           ELSE [st EXCEPT !.angles = angles]

\* lines 418-434: one row of the scan-axis table
scan_row(st, row, axis_vectors) ==
  IF row.axis_id \notin DOMAIN axis_vectors THEN st
  ELSE LET angles == Put(st.angles, row.axis_id, row.angle_start)
       IN  IF row.angle_increment # 0
           THEN IF TruthyStr(st.scan_axis)
                THEN [st EXCEPT !.angles = angles,
                                !.err = Some("MoreThanOneScanAxis")]
                ELSE [st EXCEPT !.angles = angles,
                                !.scan_axis = Some(row.axis_id)]
           ELSE [st EXCEPT !.angles = angles]

\* lines 416-434: the starting angles and the scan axis
RECURSIVE read_scan_rows(_, _, _, _)
read_scan_rows(rows, i, axis_vectors, st) ==
  IF i > Len(rows) \/ ~IsNone(st.err) THEN st
  ELSE read_scan_rows(rows, i + 1, axis_vectors,
                      scan_row(st, rows[i], axis_vectors))

\* lines 443-447: the walk over dependants from the root ".".  A walk that
\* appends more names than dependants has keys looks some key up twice,
\* and so never ends: [hangs |-> TRUE].
RECURSIVE walk_dependants(_, _, _)
walk_dependants(dependants, axis, ordered_axes) ==
  IF ~TruthyStr(axis) THEN [hangs |-> FALSE, ordered_axes |-> ordered_axes]
  ELSE IF Len(ordered_axes) >= Cardinality(DOMAIN dependants)
  THEN [hangs |-> TRUE, ordered_axes |-> ordered_axes]
  ELSE walk_dependants(dependants, DictGet(dependants, Get(axis)),
                       Append(ordered_axes, Get(axis)))

\* the walk order, not reversed
resolve_order_base_first(dependants) ==
  walk_dependants(dependants, DictGet(dependants, "."), <<>>)

\* lines 443-451: the walk, then ordered_axes[::-1]
resolve_order(dependants) ==
  LET w == walk_dependants(dependants, DictGet(dependants, "."), <<>>)
  IN  [w EXCEPT !.ordered_axes = Reverse(w.ordered_axes)]

\* list.index(x): the 0-based position of the first x, None when absent
ListIndex(list, x) ==
  IF \E i \in 1..Len(list) : list[i] = x
  THEN Some((CHOOSE i \in 1..Len(list) :
               list[i] = x /\ \A j \in 1..(i - 1) : list[j] # x) - 1)
  ELSE None

\* the scan axis counted from 1
build_from_order_one_based(ordered_axes, axis_vectors, angles, scan_axis) ==
  LET vectors == [i \in 1..Len(ordered_axes) |->
                    axis_vectors[ordered_axes[i]]]
      angs == [i \in 1..Len(ordered_axes) |-> angles[ordered_axes[i]]]
      idx == IF TruthyStr(scan_axis)
             THEN ListIndex(ordered_axes, Get(scan_axis)) ELSE Some(0)
  IN  IF IsNone(idx) THEN Raise("NotInList")
      ELSE multi_axis(vectors, angs, ordered_axes,
                      IF TruthyStr(scan_axis) THEN Get(idx) + 1 ELSE 0)

\* lines 452-461: the model over the resolved order
build_from_order(ordered_axes, axis_vectors, angles, scan_axis) ==
  IF \E i \in 1..Len(ordered_axes) :
       ordered_axes[i] \notin DOMAIN axis_vectors
       \/ ordered_axes[i] \notin DOMAIN angles
  THEN Raise("KeyError")
  ELSE LET vectors == [i \in 1..Len(ordered_axes) |->
                         axis_vectors[ordered_axes[i]]]
           angs == [i \in 1..Len(ordered_axes) |-> angles[ordered_axes[i]]]
           idx == IF TruthyStr(scan_axis)
                  THEN ListIndex(ordered_axes, Get(scan_axis)) ELSE Some(0)
       IN  IF IsNone(idx) THEN Raise("NotInList")
           ELSE multi_axis(vectors, angs, ordered_axes, Get(idx))

\* the axis count is not compared with the angle count
imgCIF_H_unchecked(h) ==
  LET a == read_axis_rows(h.axis, 1,
             [axis_vectors |-> EmptyDict, dependants |-> EmptyDict])
      s == read_scan_rows(h.scan, 1, a.axis_vectors,
             [angles |-> EmptyDict, scan_axis |-> None, err |-> None])
  IN  IF ~IsNone(s.err) THEN Raise(Get(s.err))
      ELSE LET w == resolve_order(a.dependants)
           IN  IF w.hangs THEN [kind |-> "hang"]
               ELSE build_from_order(w.ordered_axes, a.axis_vectors,
                                     s.angles, s.scan_axis)

imgCIF_H(h) ==
  LET a == read_axis_rows(h.axis, 1,
             [axis_vectors |-> EmptyDict, dependants |-> EmptyDict])
      s == read_scan_rows(h.scan, 1, a.axis_vectors,
             [angles |-> EmptyDict, scan_axis |-> None, err |-> None])
  IN  IF ~IsNone(s.err) THEN Raise(Get(s.err))
      ELSE IF Cardinality(DOMAIN a.axis_vectors) # Cardinality(DOMAIN s.angles)
      THEN Raise("AxisCountMismatch")
      ELSE LET w == resolve_order(a.dependants)
           IN  IF w.hangs THEN [kind |-> "hang"]
               ELSE build_from_order(w.ordered_axes, a.axis_vectors,
                                     s.angles, s.scan_axis)

\* the error taxonomy of the specification
ErrorKind(site) ==
  CASE site = "OnlyOneOfAxisOrAxes" -> "ConflictingAxisSpec"
    [] site \in {"NumberOfAnglesMustMatchAxes", "NumberOfNamesMustMatchAxes",
                 "NumberOfAxesMustMatchCurrent",
                 "NumberOfAnglesMustMatchCurrent",
                 "NumberOfNamesMustMatchCurrent"} -> "DimensionMismatch"
    [] site = "CanNotOverrideScanAxis" -> "ImmutableScanAxis"
    [] site = "InvalidDirection" -> "InvalidDirection"
    [] site = "AxisCountMismatch" -> "HeaderInconsistency"
    [] site = "MoreThanOneScanAxis" -> "AmbiguousScanAxis"
    [] OTHER -> "Other"

----------------------------------------------------------------------------
(* The format adapters.  An image file is known by its path; Data(f) is    *)
(* the stack of images it holds, each a tuple of pixel values.  `cache`    *)
(* holds the class attributes FormatHDF5ESRF._cached_n_images and          *)
(* _cached_first_image (dictionaries keyed by path),                       *)
(* FormatHDF5ESRFJungfrau4M._cached_mask and                               *)
(* FormatNXmxStillsWithScan._detector_model (None until first set).        *)

Data(f) ==
  IF f = "a.h5" THEN <<<<0, 5>>, <<1, 1>>, <<2, 2>>>>
  ELSE <<<<7, 0>>, <<3, 3>>>>

\* image / 478.6, kept symbolic
PerPhoton(image) ==
  [i \in 1..Len(image) |-> [adu |-> image[i], divided_by |-> "478.6"]]

\* first_image == 0, pixel by pixel
IsZero(first_image) == [i \in 1..Len(first_image) |-> first_image[i].adu = 0]

\* the shape and the first image are read from the file at every _start
FormatHDF5ESRF_start_always_reads(st, image_file) ==
  LET n_images == Len(Data(image_file))
      first_image == PerPhoton(Data(image_file)[1])
      count(d) == IF image_file \in DOMAIN d THEN d[image_file] + 1 ELSE 1
  IN  [cache |-> [st.cache EXCEPT
                    !.cached_n_images = Put(@, image_file, n_images),
                    !.cached_first_image = Put(@, image_file, first_image)],
       reads |-> [n_images |-> Put(st.reads.n_images, image_file,
                                   count(st.reads.n_images)),
                  first_image |-> Put(st.reads.first_image, image_file,
                                      count(st.reads.first_image))]]

\* FormatHDF5ESRF._start, lines 41-51, over st = [cache, reads]
FormatHDF5ESRF_start(st, image_file) ==
  LET count(d) == IF image_file \in DOMAIN d THEN d[image_file] + 1 ELSE 1
      st1 == IF image_file \notin DOMAIN st.cache.cached_n_images
             THEN LET n_images == Len(Data(image_file))
                  IN  [cache |-> [st.cache EXCEPT !.cached_n_images =
                                    Put(@, image_file, n_images)],
                       reads |-> [st.reads EXCEPT !.n_images =
                                    Put(@, image_file, count(@))]]
             ELSE st
  IN  IF image_file \notin DOMAIN st1.cache.cached_first_image
      THEN [cache |-> [st1.cache EXCEPT !.cached_first_image =
                         Put(@, image_file, PerPhoton(Data(image_file)[1]))],
            reads |-> [st1.reads EXCEPT !.first_image =
                         Put(@, image_file, count(@))]]
      ELSE st1

Value(v) == [kind |-> "value", value |-> v]

\* FormatHDF5ESRF.get_num_images, lines 60-61
FormatHDF5ESRF_get_num_images(c, image_file) ==
  IF image_file \in DOMAIN c.cached_n_images
  THEN Value(c.cached_n_images[image_file])
  ELSE Raise("KeyError")

\* FormatHDF5ESRF._detector, lines 74-99: the image size and the mask
\* (1 where the first image is 0) given to the detector factory
FormatHDF5ESRF_detector(c, image_file) ==
  IF image_file \in DOMAIN c.cached_first_image
  THEN LET first_image == c.cached_first_image[image_file]
           mask_sel == IsZero(first_image)
       IN  Value([image_size |-> Len(first_image),
                  mask |-> [i \in 1..Len(first_image) |->
                              IF mask_sel[i] THEN 1 ELSE 0]])
  ELSE Raise("KeyError")

\* FormatHDF5ESRFJungfrau4M._start, lines 41-61: the attributes of the
\* instance read from the file (images are kept as rows of pixels)
FormatHDF5ESRFJungfrau4M_start(image_file) ==
  [n_images |-> Some(Len(Data(image_file))),
   image_size |-> Some(Len(Data(image_file)[1]))]

\* FormatHDF5ESRFJungfrau4M.get_static_mask, lines 87-99: [cache, ret];
\* the mask is False where the first image is 0
FormatHDF5ESRFJungfrau4M_get_static_mask(c, self) ==
  LET c1 == IF IsNone(c.cached_mask)
            THEN LET first_image == PerPhoton(Data(self.image_file)[1])
                     mask_sel == IsZero(first_image)
                     mask == [i \in 1..Get(self.image_size) |-> ~mask_sel[i]]
                 IN  [c EXCEPT !.cached_mask = Some(mask)]
            ELSE c
  IN  [cache |-> c1, ret |-> Value(Get(c1.cached_mask))]

\* FormatHDF5ESRFJungfrau4M._detector, lines 101-124: [cache, ret]; the
\* mask given to the detector factory is self.get_static_mask(), so the
\* call fills the class attribute when it is None
FormatHDF5ESRFJungfrau4M_detector(c, self) ==
  LET o == FormatHDF5ESRFJungfrau4M_get_static_mask(c, self)
  IN  [cache |-> o.cache,
       ret |-> Value([image_size |-> Get(self.image_size),
                      mask |-> o.ret.value])]

\* dxtbx.nexus.get_dxtbx_detector: the detector model the file describes;
\* the detector of b.h5 lies between the sample and the source
get_dxtbx_detector(image_file) ==
  [described_by |-> image_file, distance_inverted |-> FALSE,
   between_sample_and_source |-> image_file = "b.h5"]

detector_between_sample_and_source(detector) ==
  detector.between_sample_and_source

inverted_distance_detector(detector) ==
  [detector EXCEPT !.distance_inverted = TRUE,
                   !.between_sample_and_source = FALSE]

\* FormatNXmxStillsWithScan._start, lines 40-49: [cache, detector_model],
\* the class attribute and the attribute of the instance
FormatNXmxStillsWithScan_start(c, image_file) ==
  LET c1 == IF IsNone(c.detector_model)
            THEN [c EXCEPT !.detector_model =
                    Some(get_dxtbx_detector(image_file))]
            ELSE c
      mine == Get(c1.detector_model)
  IN  [cache |-> c1,
       detector_model |-> IF detector_between_sample_and_source(mine)
                          THEN inverted_distance_detector(mine) ELSE mine]

----------------------------------------------------------------------------
(* Inputs *)

\* most values in an `axes` option
MaxValues == 6

\* most entries in an `angles` or `names` option or argument, and the
\* largest `scan_axis`
MaxLen == 2

\* most rows of a header category
MaxRows == 2

\* most adapter instances opened in one process
MaxInstances == 3

SeqsUpTo(S, n) == UNION {[1..k -> S] : k \in 0..n}

\* the i-th value of an `axes` option: the unit vectors x, y, z, x, ...
AxesValue(i) == IF (i - 1) % 3 = ((i - 1) \div 3) % 3 THEN 1 ELSE 0

FlatAxes(n) == [i \in 1..n |-> AxesValue(i)]

Rotation == <<0, 1, 0, 1, 0, 0, 0, 0, 1>>

ParamsSet ==
  [axis : {None, Some(<<0, 1, 0>>)},
   axes : {None} \cup {Some(FlatAxes(n)) : n \in 2..MaxValues},
   angles : {None} \cup {Some([i \in 1..n |-> 10 * i]) : n \in 1..MaxLen},
   names : {None} \cup {Some([i \in 1..n |-> "N"]) : n \in 1..MaxLen},
   scan_axis : {None} \cup {Some(k) : k \in 0..MaxLen},
   fixed_rotation : {None, Some(Rotation)},
   setting_rotation : {None, Some(Rotation)},
   invert_rotation_axis : BOOLEAN]

\* the reference models a caller may hold before its first call: the
\* default single-axis model, and a two-axis model scanning about its
\* second axis
RefMulti ==
  MultiAxisGoniometer(<<<<0, 0, 1>>, <<0, 0, 1>>>>, <<5, 5>>, <<"R", "R">>, 1)

References == {Goniometer, RefMulti}

AxisIds == {"A", "B"}

Vector(id) ==
  CASE id = "A" -> <<1, 0, 0>>
    [] id = "B" -> <<0, 1, 0>>
    [] OTHER -> <<0, 0, -1>>

AngleStart(id) ==
  CASE id = "A" -> 0
    [] id = "B" -> 10
    [] OTHER -> 20

AxisRows ==
  {[id |-> id, equipment |-> "goniometer", vector |-> Vector(id),
    depends_on |-> d] : id \in AxisIds, d \in {".", "A", "B"}}
  \cup {[id |-> "D", equipment |-> "detector", vector |-> Vector("D"),
         depends_on |-> "."]}

\* the detector axis D moves during the scan
ScanRows ==
  {[axis_id |-> id, angle_start |-> AngleStart(id), angle_increment |-> inc] :
     id \in AxisIds, inc \in {0, 1}}
  \cup {[axis_id |-> "D", angle_start |-> AngleStart("D"),
         angle_increment |-> 1]}

Headers ==
  [axis : SeqsUpTo(AxisRows, MaxRows), scan : SeqsUpTo(ScanRows, MaxRows)]

KappaArgs ==
  [alpha : {50}, omega : {1}, kappa : {2}, phi : {3},
   direction : {"+y", "+z", "-y", "-z", "+x"},
   scan_axis : {"phi", "omega", "kappa"}]

MultiAxisArgs ==
  [axes : {[i \in 1..n |-> <<1, 0, 0>>] : n \in 0..MaxLen},
   angles : {[i \in 1..n |-> 0] : n \in 0..MaxLen},
   names : {[i \in 1..n |-> "N"] : n \in 0..MaxLen},
   scan_axis : 0..MaxLen]

\* the keys of a serialized goniometer: the three discriminator keys, and
\* a key of the single-axis form
DictKeys == {"axes", "angles", "scan_axis", "rotation_axis"}

\* the dictionaries over some of the keys, every value being v
Dicts(v) == {[k \in K |-> v] : K \in SUBSET DictKeys}

\* d holds the value "d" under its keys and the template t the value "t"
FromDictArgs ==
  [d : {None} \cup {Some(x) : x \in Dicts("d")},
   t : {None} \cup {Some(x) : x \in Dicts("t")}]

\* the image files an adapter may be opened on
Files == {"a.h5", "b.h5"}

----------------------------------------------------------------------------
(* The state.  A caller builds a goniometer from one kind of input: an     *)
(* option object `params` (with or without a reference model it holds), a  *)
(* header read into a CBF handle, the arguments of kappa or multi_axis, or  *)
(* a serialized dictionary and a template.  The inputs it does not have    *)
(* are None.  `call` records the last call and what it was given, `ret`    *)
(* what it returned or raised.                                             *)

\* no adapter class has been used: the caches are as the class bodies
\* leave them
NoAdapters ==
  /\ cache = [cached_n_images |-> <<>>, cached_first_image |-> <<>>,
              cached_mask |-> None, detector_model |-> None]
  /\ instances = <<>>
  /\ reads = [n_images |-> <<>>, first_image |-> <<>>]

Init ==
  /\ call = [op |-> "none"]
  /\ ret = [kind |-> "none"]
  /\ NoAdapters
  /\ \/ /\ params \in {Some(p) : p \in ParamsSet}
        /\ reference \in {Some(g) : g \in References}
        /\ header = None /\ kargs = None /\ margs = None /\ dargs = None
     \/ /\ header \in {Some(h) : h \in Headers}
        /\ params = None /\ reference = None /\ kargs = None
        /\ margs = None /\ dargs = None
     \/ /\ kargs \in {Some(k) : k \in KappaArgs}
        /\ params = None /\ reference = None /\ header = None
        /\ margs = None /\ dargs = None
     \/ /\ margs \in {Some(m) : m \in MultiAxisArgs}
        /\ params = None /\ reference = None /\ header = None
        /\ kargs = None /\ dargs = None
     \/ /\ dargs \in {Some(a) : a \in FromDictArgs}
        /\ params = None /\ reference = None /\ header = None
        /\ kargs = None /\ margs = None

\* the reference argument of a call: the reference held, or none
Passed(use) == IF use THEN reference ELSE None

\* the effect of a call of one of the three from_phil entry points with
\* outcome o
PhilCall(op, use, o) ==
  /\ params' = Some(o.params)
  /\ reference' = IF use THEN o.reference ELSE reference
  /\ ret' = o.ret
  /\ call' = [op |-> op, params |-> Get(params), reference |-> Passed(use),
              route |-> o.route]
  /\ UNCHANGED <<header, kargs, margs, dargs, adapters>>

FromPhil ==
  \E use \in BOOLEAN :
    /\ ~IsNone(params)
    /\ PhilCall("from_phil", use, from_phil(Get(params), Passed(use)))

SingleAxisFromPhil ==
  \E use \in BOOLEAN :
    /\ ~IsNone(params)
    /\ use => Get(reference).kind = "single"
    /\ PhilCall("single_axis_goniometer_from_phil", use,
                single_axis_goniometer_from_phil(Get(params), Passed(use)))

MultiAxisFromPhil ==
  \E use \in BOOLEAN :
    /\ ~IsNone(params)
    /\ use => Get(reference).kind = "multi"
    /\ PhilCall("multi_axis_goniometer_from_phil", use,
                multi_axis_goniometer_from_phil(Get(params), Passed(use)))

ImgCIF_H ==
  /\ ~IsNone(header)
  /\ ret' = imgCIF_H(Get(header))
  /\ call' = [op |-> "imgCIF_H"]
  /\ UNCHANGED <<params, reference, header, kargs, margs, dargs, adapters>>

Kappa ==
  /\ ~IsNone(kargs)
  /\ LET k == Get(kargs)
     IN  ret' = kappa(k.alpha, k.omega, k.kappa, k.phi, k.direction,
                      k.scan_axis)
  /\ call' = [op |-> "kappa"]
  /\ UNCHANGED <<params, reference, header, kargs, margs, dargs, adapters>>

MultiAxis ==
  /\ ~IsNone(margs)
  /\ LET m == Get(margs)
     IN  ret' = multi_axis(m.axes, m.angles, m.names, m.scan_axis)
  /\ call' = [op |-> "multi_axis"]
  /\ UNCHANGED <<params, reference, header, kargs, margs, dargs, adapters>>

FromDict ==
  /\ ~IsNone(dargs)
  /\ ret' = from_dict(Get(dargs).d, Get(dargs).t)
  /\ call' = [op |-> "from_dict"]
  /\ UNCHANGED <<params, reference, header, kargs, margs, dargs, adapters>>

Next ==
  \/ FromPhil
  \/ SingleAxisFromPhil
  \/ MultiAxisFromPhil
  \/ ImgCIF_H
  \/ Kappa
  \/ MultiAxis
  \/ FromDict

Spec == Init /\ [][Next]_vars

----------------------------------------------------------------------------
(* A process that opens format adapters on image files, one after the      *)
(* other, and queries them.  Constructing an adapter runs its _start.      *)

InitCache ==
  /\ call = [op |-> "none"]
  /\ ret = [kind |-> "none"]
  /\ NoAdapters
  /\ params = None /\ reference = None /\ header = None
  /\ kargs = None /\ margs = None /\ dargs = None

goniometer_inputs == <<params, reference, header, kargs, margs, dargs>>

\* an adapter instance: its class, self._image_file, and the attributes
\* its _start sets (None when the class has no such attribute)
Instance(cls, image_file, detector_model, n_images, image_size) ==
  [cls |-> cls, image_file |-> image_file, detector_model |-> detector_model,
   n_images |-> n_images, image_size |-> image_size]

AdapterCall(op, instance) ==
  [op |-> op, cls |-> instance.cls, image_file |-> instance.image_file]

StartESRF ==
  \E f \in Files :
    /\ Len(instances) < MaxInstances
    /\ LET st == FormatHDF5ESRF_start([cache |-> cache, reads |-> reads], f)
           self == Instance("FormatHDF5ESRF", f, None, None, None)
       IN  /\ cache' = st.cache
           /\ reads' = st.reads
           /\ instances' = Append(instances, self)
           /\ call' = AdapterCall("_start", self)
    /\ ret' = [kind |-> "none"]
    /\ UNCHANGED goniometer_inputs

StartJungfrau4M ==
  \E f \in Files :
    /\ Len(instances) < MaxInstances
    /\ LET o == FormatHDF5ESRFJungfrau4M_start(f)
           self == Instance("FormatHDF5ESRFJungfrau4M", f, None,
                            o.n_images, o.image_size)
       IN  /\ instances' = Append(instances, self)
           /\ call' = AdapterCall("_start", self)
    /\ ret' = [kind |-> "none"]
    /\ UNCHANGED <<goniometer_inputs, cache, reads>>

StartNXmxStillsWithScan ==
  \E f \in Files :
    /\ Len(instances) < MaxInstances
    /\ LET o == FormatNXmxStillsWithScan_start(cache, f)
           self == Instance("FormatNXmxStillsWithScan", f,
                            Some(o.detector_model), None, None)
       IN  /\ cache' = o.cache
           /\ instances' = Append(instances, self)
           /\ call' = AdapterCall("_start", self)
    /\ ret' = [kind |-> "none"]
    /\ UNCHANGED <<goniometer_inputs, reads>>

GetNumImages ==
  \E i \in 1..Len(instances) :
    /\ instances[i].cls = "FormatHDF5ESRF"
    /\ ret' = FormatHDF5ESRF_get_num_images(cache, instances[i].image_file)
    /\ call' = AdapterCall("get_num_images", instances[i])
    /\ UNCHANGED <<goniometer_inputs, adapters>>

Detector ==
  \E i \in 1..Len(instances) :
    /\ instances[i].cls = "FormatHDF5ESRF"
    /\ ret' = FormatHDF5ESRF_detector(cache, instances[i].image_file)
    /\ call' = AdapterCall("_detector", instances[i])
    /\ UNCHANGED <<goniometer_inputs, adapters>>

GetStaticMask ==
  \E i \in 1..Len(instances) :
    /\ instances[i].cls = "FormatHDF5ESRFJungfrau4M"
    /\ LET o == FormatHDF5ESRFJungfrau4M_get_static_mask(cache, instances[i])
       IN  /\ cache' = o.cache
           /\ ret' = o.ret
    /\ call' = AdapterCall("get_static_mask", instances[i])
    /\ UNCHANGED <<goniometer_inputs, instances, reads>>

\* get_detector, lines 84-85, which returns self._detector(index)
DetectorJungfrau4M ==
  \E i \in 1..Len(instances) :
    /\ instances[i].cls = "FormatHDF5ESRFJungfrau4M"
    /\ LET o == FormatHDF5ESRFJungfrau4M_detector(cache, instances[i])
       IN  /\ cache' = o.cache
           /\ ret' = o.ret
    /\ call' = AdapterCall("_detector", instances[i])
    /\ UNCHANGED <<goniometer_inputs, instances, reads>>

NextCache ==
  \/ StartESRF
  \/ StartJungfrau4M
  \/ StartNXmxStillsWithScan
  \/ GetNumImages
  \/ Detector
  \/ GetStaticMask
  \/ DetectorJungfrau4M

CacheSpec == InitCache /\ [][NextCache]_vars

----------------------------------------------------------------------------
(* Claims about imgCIF_H *)

CifCall == call.op = "imgCIF_H"

TheHeader == Get(header)

\* the ids of the goniometer axes of a header
GonioIds(h) ==
  {h.axis[i].id : i \in {j \in 1..Len(h.axis) :
                           h.axis[j].equipment = "goniometer"}}

\* the goniometer axes with a row in the scan-axis table
ScannedIds(h) ==
  {h.scan[i].axis_id : i \in 1..Len(h.scan)} \cap GonioIds(h)

\* the goniometer axes with a nonzero increment in the scan-axis table
MovingIds(h) ==
  {h.scan[i].axis_id : i \in {j \in 1..Len(h.scan) :
                                h.scan[j].angle_increment # 0}}
  \cap GonioIds(h)

GonioRowCount(h) ==
  Cardinality({j \in 1..Len(h.axis) : h.axis[j].equipment = "goniometer"})

\* the parents an axis is declared to depend on
ParentsOf(h, id) ==
  {h.axis[j].depends_on : j \in {k \in 1..Len(h.axis) :
      h.axis[k].equipment = "goniometer" /\ h.axis[k].id = id}}

\* the orders o of all goniometer axes with o[1] depending on the root and
\* each later axis on the one before it
Chains(h) ==
  LET n == Cardinality(GonioIds(h))
  IN  {o \in [1..n -> GonioIds(h)] :
         /\ \A i, j \in 1..n : i # j => o[i] # o[j]
         /\ \A i \in 1..n :
              ParentsOf(h, o[i]) = {IF i = 1 THEN "." ELSE o[i - 1]}}

\* the goniometer axes form a chain from the root: each axis is declared
\* once, and they can be ordered as a chain
IsChain(h) ==
  /\ GonioIds(h) # {}
  /\ GonioRowCount(h) = Cardinality(GonioIds(h))
  /\ Chains(h) # {}

ChainOrder(h) == CHOOSE o \in Chains(h) : TRUE

\* every goniometer axis has exactly one scan row, and at most one moves
ScanTableComplete(h) ==
  /\ \A id \in GonioIds(h) :
       Cardinality({j \in 1..Len(h.scan) : h.scan[j].axis_id = id}) = 1
  /\ Cardinality(MovingIds(h)) <= 1

\* the position (from 0) of id in the sequence s
PositionIn(s, id) == (CHOOSE i \in 1..Len(s) : s[i] = id) - 1

\* C1: for a header whose goniometer axes form a chain from the root, the
\* model returned lists the axes in the reverse of the chain order, its
\* axis vector, angle and name at each index are those of one header axis,
\* and scan_axis is the index of the one moving axis in that order, or 0
\* when no axis moves; such a header with a complete scan table yields a
\* model.
C1_ChainOrderReversed ==
  (CifCall /\ IsChain(TheHeader)) =>
    LET h == TheHeader
        order == Reverse(ChainOrder(h))
    IN  /\ ScanTableComplete(h) => ret.kind = "multi"
        /\ ret.kind = "multi" =>
             /\ ret.names = order
             /\ Len(ret.axes) = Len(order)
             /\ Len(ret.angles) = Len(order)
             /\ \A i \in 1..Len(order) :
                  /\ ret.axes[i] = Vector(order[i])
                  /\ ret.angles[i] = AngleStart(order[i])
             /\ ret.scan_axis =
                  IF MovingIds(h) = {} THEN 0
                  ELSE PositionIn(order, CHOOSE id \in MovingIds(h) : TRUE)

\* a two-axis chain whose base axis moves: scan_axis is 1 after reversal
C1_Witness ==
  /\ CifCall
  /\ IsChain(TheHeader)
  /\ ret.kind = "multi"
  /\ Len(ret.names) = 2
  /\ ret.scan_axis = 1

\* C2: whenever two or more goniometer axes carry a nonzero increment in
\* the scan-axis table, imgCIF_H raises the ambiguous-scan-axis error and
\* returns no model.
C2_AmbiguousScanAxis ==
  (CifCall /\ Cardinality(MovingIds(TheHeader)) >= 2) =>
    /\ IsError(ret)
    /\ ret.error = "MoreThanOneScanAxis"
    /\ ErrorKind(ret.error) = "AmbiguousScanAxis"

C2_Witness ==
  /\ CifCall
  /\ MovingIds(TheHeader) = {"A", "B"}
  /\ IsError(ret)
  /\ ret.error = "MoreThanOneScanAxis"

\* C3: imgCIF_H never returns a model with fewer axes than the header
\* declares goniometer axes: a walk from the root that misses an axis
\* (cyclic or disconnected dependency data, two axes on one parent) fails.
C3_NoShortModel ==
  (CifCall /\ ret.kind = "multi") =>
    Len(ret.axes) = Cardinality(GonioIds(TheHeader))

\* the number of goniometer axes differs from the number with angle data
CountDiffers(h) ==
  Cardinality(GonioIds(h)) # Cardinality(ScannedIds(h))

\* C4 as stated: whenever the number of goniometer axes differs from the
\* number of them with angle data, imgCIF_H raises the header-inconsistency
\* error.
C4_Stated ==
  (CifCall /\ CountDiffers(TheHeader)) =>
    /\ IsError(ret)
    /\ ErrorKind(ret.error) = "HeaderInconsistency"

\* a second nonzero increment of a goniometer axis is met in the scan table
SecondMovingRow(h) ==
  Cardinality({j \in 1..Len(h.scan) :
                 /\ h.scan[j].axis_id \in GonioIds(h)
                 /\ h.scan[j].angle_increment # 0}) >= 2

\* C4 amended: whenever the number of goniometer axes differs from the
\* number of them with angle data, imgCIF_H fails before any axis ordering
\* or model construction: with the header-inconsistency error, unless a
\* second nonzero increment was met while reading the scan-axis table,
\* which raises the ambiguous-scan-axis error first.
C4_CountMismatch ==
  (CifCall /\ CountDiffers(TheHeader)) =>
    /\ IsError(ret)
    /\ IF SecondMovingRow(TheHeader)
       THEN ret.error = "MoreThanOneScanAxis"
       ELSE ret.error = "AxisCountMismatch"

C4_Witness ==
  /\ CifCall
  /\ CountDiffers(TheHeader)
  /\ IsError(ret)
  /\ ret.error = "AxisCountMismatch"
  /\ Cardinality(GonioIds(TheHeader)) = 2

\* the header of the example: A depends on the root, B on A; A starts at 0
\* and does not move, B starts at 10 and moves by 1
IsExampleHeader(h) ==
  /\ Len(h.axis) = 2
  /\ {h.axis[1], h.axis[2]} =
       {[id |-> "A", equipment |-> "goniometer", vector |-> <<1, 0, 0>>,
         depends_on |-> "."],
        [id |-> "B", equipment |-> "goniometer", vector |-> <<0, 1, 0>>,
         depends_on |-> "A"]}
  /\ Len(h.scan) = 2
  /\ {h.scan[1], h.scan[2]} =
       {[axis_id |-> "A", angle_start |-> 0, angle_increment |-> 0],
        [axis_id |-> "B", angle_start |-> 10, angle_increment |-> 1]}

\* C5 as stated: the example header resolves to the order [B, A] with
\* scan_axis 1, pointing at A.
C5_Stated ==
  (CifCall /\ IsExampleHeader(TheHeader)) =>
    /\ ret.kind = "multi"
    /\ ret.names = <<"B", "A">>
    /\ ret.scan_axis = 1
    /\ ret.names[ret.scan_axis + 1] = "A"

\* C5 amended: the example header resolves to the order [B, A] with
\* scan_axis 0, pointing at B, the axis with the nonzero increment.
C5_Example ==
  (CifCall /\ IsExampleHeader(TheHeader)) =>
    /\ ret.kind = "multi"
    /\ ret.names = <<"B", "A">>
    /\ ret.axes = <<<<0, 1, 0>>, <<1, 0, 0>>>>
    /\ ret.angles = <<10, 0>>
    /\ ret.scan_axis = 0
    /\ ret.names[ret.scan_axis + 1] = "B"

C5_Witness ==
  /\ CifCall
  /\ IsExampleHeader(TheHeader)
  /\ ret.kind = "multi"
  /\ ret.scan_axis = 0

----------------------------------------------------------------------------
(* Claims about from_phil and its workers *)

\* the last call was from_phil
FromPhilCall == call.op = "from_phil"

\* the last call passed a multi-axis reference to from_phil or to
\* multi_axis_goniometer_from_phil: an override of that reference
OverrideCall ==
  /\ call.op \in {"from_phil", "multi_axis_goniometer_from_phil"}
  /\ ~IsNone(call.reference)
  /\ Get(call.reference).kind = "multi"

\* the reference as it was before the call, and as it is after it
Before == Get(call.reference)

After == Get(reference)

BothSet(p) == ~IsNone(p.axis) /\ ~IsNone(p.axes)

\* C6: whenever both axis and axes are set, from_phil raises the
\* conflicting-axis-spec error, with or without a reference, and leaves
\* the reference and the options as they were.
C6_ConflictingAxisSpec ==
  (FromPhilCall /\ BothSet(call.params)) =>
    /\ IsError(ret)
    /\ ret.error = "OnlyOneOfAxisOrAxes"
    /\ ErrorKind(ret.error) = "ConflictingAxisSpec"
    /\ ~IsNone(call.reference) => reference = call.reference
    /\ params = Some(call.params)

\* both set, a multi-axis reference passed whose axes the options match
C6_Witness ==
  /\ FromPhilCall
  /\ BothSet(call.params)
  /\ OverrideCall
  /\ Len(Get(call.params.axes)) = 3 * Len(Before.axes)
  /\ IsError(ret)
  /\ ret.error = "OnlyOneOfAxisOrAxes"

\* axis, or axes when axis is not set, holds exactly three values
ResolvesToThree(p) ==
  \/ ~IsNone(p.axis) /\ Len(Get(p.axis)) = 3
  \/ IsNone(p.axis) /\ ~IsNone(p.axes) /\ Len(Get(p.axes)) = 3

\* axes holds more than three values, a multiple of three
MoreThanThree(p) ==
  ~IsNone(p.axes) /\ Len(Get(p.axes)) > 3 /\ Len(Get(p.axes)) % 3 = 0

\* C7 as stated: every from_phil call that passes the axis/axes check, with
\* or without a reference, is routed by the number of axis values.
C7_Stated ==
  (FromPhilCall /\ ~BothSet(call.params)) =>
    /\ ResolvesToThree(call.params) => call.route = "single"
    /\ MoreThanThree(call.params) => call.route = "multi"

\* C7 amended: without a reference the call is routed by the number of
\* axis values; with a reference it is routed by the kind of the
\* reference, whatever the number of axis values.
C7_Routing ==
  (FromPhilCall /\ ~BothSet(call.params)) =>
    IF IsNone(call.reference)
    THEN /\ ResolvesToThree(call.params) => call.route = "single"
         /\ MoreThanThree(call.params) => call.route = "multi"
    ELSE call.route = IF Before.kind = "multi" THEN "multi" ELSE "single"

\* three axis values with a multi-axis reference: the multi-axis worker
C7_Witness ==
  /\ FromPhilCall
  /\ ~BothSet(call.params)
  /\ ResolvesToThree(call.params)
  /\ OverrideCall
  /\ call.route = "multi"

\* C8: an override call that supplies scan_axis fails, whatever the value,
\* and no override call changes the scan_axis of the reference.
C8_ScanAxisImmutable ==
  OverrideCall =>
    /\ ~IsNone(call.params.scan_axis) => IsError(ret)
    /\ After.scan_axis = Before.scan_axis

\* the current scan axis re-supplied, nothing else wrong
C8_Witness ==
  /\ OverrideCall
  /\ call.params.scan_axis = Some(Before.scan_axis)
  /\ IsError(ret)
  /\ ret.error = "CanNotOverrideScanAxis"

\* a supplied axes, angles or names differs in length from the reference's
LengthMismatch(p, g) ==
  \/ ~IsNone(p.axes) /\ Len(Get(p.axes)) # 3 * Len(g.axes)
  \/ ~IsNone(p.angles) /\ Len(Get(p.angles)) # Len(g.angles)
  \/ ~IsNone(p.names) /\ Len(Get(p.names)) # Len(g.names)

\* C9 as stated: an override call with a length mismatch raises the
\* dimension-mismatch error.
C9_Stated ==
  (OverrideCall /\ LengthMismatch(call.params, Before)) =>
    /\ IsError(ret)
    /\ ErrorKind(ret.error) = "DimensionMismatch"

\* a check that runs before the lengths are compared fails
EarlierFault(p) ==
  \/ FromPhilCall /\ BothSet(p)
  \/ ~IsNone(p.axes) /\ Len(Get(p.axes)) % 3 # 0
  \/ ~IsNone(p.fixed_rotation)
  \/ ~IsNone(p.setting_rotation)

\* C9 amended: an override call with a length mismatch fails: with the
\* dimension-mismatch error, unless an earlier check fails first (axis and
\* axes both set, axes not a multiple of three values, fixed_rotation or
\* setting_rotation supplied).  No override call truncates or pads: each
\* field keeps its length, and holds what it held or what was supplied.
C9_LengthMismatch ==
  OverrideCall =>
    LET p == call.params
    IN  /\ LengthMismatch(p, Before) =>
             /\ IsError(ret)
             /\ EarlierFault(p) <=> ErrorKind(ret.error) # "DimensionMismatch"
        /\ Len(After.axes) = Len(After.angles)
        /\ Len(After.axes) = Len(After.names)
        /\ Len(After.axes) = Len(Before.axes)
        /\ After.angles \in {Before.angles} \cup
             (IF IsNone(p.angles) THEN {} ELSE {Get(p.angles)})
        /\ After.names \in {Before.names} \cup
             (IF IsNone(p.names) THEN {} ELSE {Get(p.names)})
        /\ After.axes \in
             LET old == {Before.axes} \cup
                   (IF IsNone(p.axes) THEN {} ELSE {Triples(Get(p.axes))})
             IN  old \cup {NegAxes(a) : a \in old}

\* angles of the wrong length and nothing else wrong
C9_Witness ==
  /\ OverrideCall
  /\ ~IsNone(call.params.angles)
  /\ Len(Get(call.params.angles)) < Len(Before.angles)
  /\ ~EarlierFault(call.params)
  /\ IsError(ret)
  /\ ret.error = "NumberOfAnglesMustMatchCurrent"
  /\ After.angles = Before.angles

\* C10: every multi-axis model returned, by whatever construction path,
\* has one angle and one name per axis and 0 <= scan_axis < len(axes).
C10_ModelInvariant ==
  ret.kind = "multi" =>
    /\ Len(ret.axes) = Len(ret.angles)
    /\ Len(ret.axes) = Len(ret.names)
    /\ 0 <= ret.scan_axis
    /\ ret.scan_axis < Len(ret.axes)

\* a fresh two-axis model from options that supply scan_axis 1
C10_Witness ==
  /\ FromPhilCall
  /\ IsNone(call.reference)
  /\ ret.kind = "multi"
  /\ call.params.scan_axis = Some(1)
  /\ ret.scan_axis = 1
  /\ Len(ret.axes) = 2

----------------------------------------------------------------------------
(* Claims about the single-axis and multi-axis workers *)

\* the last call ran the single-axis worker, directly or through from_phil
SingleWorkerCall ==
  /\ call.op \in {"from_phil", "single_axis_goniometer_from_phil"}
  /\ call.route = "single"

\* the last call ran the multi-axis worker, directly or through from_phil
MultiWorkerCall ==
  /\ call.op \in {"from_phil", "multi_axis_goniometer_from_phil"}
  /\ call.route = "multi"

\* the reference passed to the last call is as it was before the call
ReferenceUntouched == ~IsNone(call.reference) => reference = call.reference

\* C11: whenever angles or names is supplied, single-axis construction
\* fails, with or without a reference, and the reference passed keeps its
\* rotation axis, fixed rotation and setting rotation.
C11_SingleAxisForbidsAnglesNames ==
  (/\ SingleWorkerCall
   /\ ~IsNone(call.params.angles) \/ ~IsNone(call.params.names)) =>
    /\ IsError(ret)
    /\ ReferenceUntouched

\* names supplied along with an axis and a fixed rotation that the call
\* would have written to the reference it was passed
C11_Witness ==
  /\ SingleWorkerCall
  /\ ~IsNone(call.reference)
  /\ ~IsNone(call.params.names)
  /\ IsNone(call.params.angles)
  /\ ~IsNone(call.params.axis)
  /\ Get(call.params.axis) # Before.rotation_axis
  /\ ~IsNone(call.params.fixed_rotation)
  /\ IsError(ret)
  /\ ret.error = "SingleAxisRequiresNamesNone"
  /\ After = Before

\* C12: whenever fixed_rotation or setting_rotation is supplied,
\* multi-axis construction fails, fresh or as an override: no model is
\* returned and the reference passed is as it was.
C12_MultiAxisForbidsRotations ==
  (/\ MultiWorkerCall
   /\ \/ ~IsNone(call.params.fixed_rotation)
      \/ ~IsNone(call.params.setting_rotation)) =>
    /\ IsError(ret)
    /\ ReferenceUntouched

\* setting_rotation supplied along with axes that the override would have
\* written to the reference
C12_Witness ==
  /\ MultiWorkerCall
  /\ OverrideCall
  /\ ~IsNone(call.params.setting_rotation)
  /\ IsNone(call.params.fixed_rotation)
  /\ ~IsNone(call.params.axes)
  /\ Len(Get(call.params.axes)) = 3 * Len(Before.axes)
  /\ IsError(ret)
  /\ ret.error = "MultiAxisRequiresSettingRotationNone"
  /\ After = Before

\* the last call ran the multi-axis worker without a reference
FreshMultiCall == MultiWorkerCall /\ IsNone(call.reference)

\* the number of axes the `axes` option of p holds
AxisCount(p) == Len(Get(p.axes)) \div 3

\* the checks made before fresh construction starts pass
FreshChecksPass(p) ==
  /\ ~IsNone(p.axes)
  /\ Len(Get(p.axes)) % 3 = 0
  /\ IsNone(p.fixed_rotation)
  /\ IsNone(p.setting_rotation)

\* angles, names and scan_axis of a fresh model, and the two length checks
FreshDefaults(p) ==
  /\ (~IsNone(p.angles) /\ Len(Get(p.angles)) # AxisCount(p)) => IsError(ret)
  /\ (~IsNone(p.names) /\ Len(Get(p.names)) # AxisCount(p)) => IsError(ret)
  /\ ret.kind = "multi" =>
       /\ ret.angles = IF IsNone(p.angles)
                       THEN [i \in 1..AxisCount(p) |-> 0] ELSE Get(p.angles)
       /\ ret.names = IF IsNone(p.names)
                      THEN [i \in 1..AxisCount(p) |-> ""] ELSE Get(p.names)
       /\ ret.scan_axis = IF IsNone(p.scan_axis) THEN 0 ELSE Get(p.scan_axis)
  /\ (/\ IsNone(p.angles) \/ Len(Get(p.angles)) = AxisCount(p)
      /\ IsNone(p.names) \/ Len(Get(p.names)) = AxisCount(p)
      /\ IsNone(p.scan_axis) \/ Get(p.scan_axis) < AxisCount(p)
      /\ AxisCount(p) >= 1) => ret.kind = "multi"

\* C13 as stated: the axes of a fresh multi-axis model are the consecutive
\* triples of the `axes` values, with the stated defaults and length checks
\* of angles, names and scan_axis.
C13_Stated ==
  (FreshMultiCall /\ FreshChecksPass(call.params)) =>
    /\ FreshDefaults(call.params)
    /\ ret.kind = "multi" => ret.axes = Triples(Get(call.params.axes))

\* C13 amended: the axes of a fresh multi-axis model are the consecutive
\* triples of the `axes` values, each negated component-wise when
\* invert_rotation_axis is set; angles are all zero when absent and must
\* count one per axis when given; names are one empty string per axis when
\* absent and must count one per axis when given; scan_axis is 0 when
\* absent and the supplied value otherwise.
C13_FreshMultiAxis ==
  (FreshMultiCall /\ FreshChecksPass(call.params)) =>
    /\ FreshDefaults(call.params)
    /\ ret.kind = "multi" =>
         ret.axes = IF call.params.invert_rotation_axis
                    THEN NegAxes(Triples(Get(call.params.axes)))
                    ELSE Triples(Get(call.params.axes))

\* two axes inverted, angles and names defaulted, scan_axis 1 supplied
C13_Witness ==
  /\ FreshMultiCall
  /\ FreshChecksPass(call.params)
  /\ call.params.invert_rotation_axis
  /\ IsNone(call.params.angles)
  /\ IsNone(call.params.names)
  /\ call.params.scan_axis = Some(1)
  /\ ret.kind = "multi"
  /\ ret.axes = <<<<-1, 0, 0>>, <<0, -1, 0>>>>
  /\ ret.angles = <<0, 0>>
  /\ ret.names = <<"", "">>
  /\ ret.scan_axis = 1

----------------------------------------------------------------------------
(* Claims about from_dict *)

FromDictCall == call.op = "from_dict"

\* an absent dictionary holds no key
AsDict(o) == IF IsNone(o) THEN <<>> ELSE Get(o)

\* the template t overlaid by d: d's value under every key of d
Overlaid(d, t) ==
  [k \in (DOMAIN AsDict(d)) \cup (DOMAIN AsDict(t)) |->
     IF k \in DOMAIN AsDict(d) THEN AsDict(d)[k] ELSE AsDict(t)[k]]

\* C14: for every pair (d, t) that is not both absent, from_dict
\* deserializes the template overlaid by d: as a multi-axis model exactly
\* when the merged dictionary holds all of axes, angles and scan_axis, and
\* as a single-axis model otherwise.
C14_MergeAndDispatch ==
  (/\ FromDictCall
   /\ ~(IsNone(Get(dargs).d) /\ IsNone(Get(dargs).t))) =>
    LET joint == Overlaid(Get(dargs).d, Get(dargs).t)
    IN  /\ ret.kind = "deserialized"
        /\ ret.d = joint
        /\ ret.class =
             IF {"axes", "angles", "scan_axis"} \subseteq DOMAIN joint
             THEN "MultiAxisGoniometer" ELSE "Goniometer"

----------------------------------------------------------------------------
(* Claims about kappa *)

KappaCall == call.op = "kappa"

\* the component (1 = x, 2 = y, 3 = z) a direction names
DirectionComponent(direction) == IF direction \in {"+y", "-y"} THEN 2 ELSE 3

\* C15: for a direction among +y, +z, -y, -z, kappa returns the three-axis
\* model with axes [phi (1,0,0), kappa axis, omega (1,0,0)], angles
\* [phi, kappa, omega] and names [PHI, KAPPA, OMEGA]; the kappa axis has
\* cos(alpha) as x, sin(alpha) with the sign of the direction in the
\* component the direction names and 0 in the other; scan_axis is 0 for
\* "phi" and 2 for every other value.  For any other direction kappa raises
\* the invalid-direction error and returns no model.
C15_Kappa ==
  KappaCall =>
    LET k == Get(kargs)
        at == DirectionComponent(k.direction)
    IN  IF k.direction \in {"+y", "+z", "-y", "-z"}
        THEN /\ ret.kind = "multi"
             /\ Len(ret.axes) = 3
             /\ ret.axes[1] = <<1, 0, 0>>
             /\ ret.axes[3] = <<1, 0, 0>>
             /\ ret.axes[2][1] = Cos(k.alpha)
             /\ ret.axes[2][at] = IF k.direction \in {"+y", "+z"}
                                  THEN Sin(k.alpha) ELSE Minus(Sin(k.alpha))
             /\ ret.axes[2][5 - at] = 0
             /\ ret.angles = <<k.phi, k.kappa, k.omega>>
             /\ ret.names = <<"PHI", "KAPPA", "OMEGA">>
             /\ ret.scan_axis = IF k.scan_axis = "phi" THEN 0 ELSE 2
        ELSE /\ IsError(ret)
             /\ ret.error = "InvalidDirection"
             /\ ErrorKind(ret.error) = "InvalidDirection"

\* the kappa arm along -z, scanning about an axis that is neither "phi"
\* nor "omega"
C15_Witness ==
  /\ KappaCall
  /\ Get(kargs).direction = "-z"
  /\ Get(kargs).scan_axis = "kappa"
  /\ ret.kind = "multi"
  /\ ret.axes[2] = <<Cos(50), 0, Minus(Sin(50))>>
  /\ ret.scan_axis = 2

----------------------------------------------------------------------------
(* Claims about the effects of from_phil on its arguments *)

\* the rotation axis a single-axis call arrives at without the flag: the
\* supplied axis, else the three supplied axes values, else the axis of
\* the goniometer it starts from
PlainAxis(p, g0) ==
  IF ~IsNone(p.axis) THEN Get(p.axis)
  ELSE IF ~IsNone(p.axes) THEN Get(p.axes)
  ELSE g0.rotation_axis

\* the goniometer a single-axis call starts from
StartingGoniometer == IF IsNone(call.reference) THEN Goniometer ELSE Before

\* C18: a single-axis call with invert_rotation_axis set returns the
\* component-wise negation of the rotation axis that the same call returns
\* without the flag, and the same fixed rotation and setting rotation.
C18_InvertRotationAxis ==
  (SingleWorkerCall /\ call.params.invert_rotation_axis /\ ~IsError(ret)) =>
    LET p == call.params
        plain == single_axis_goniometer_from_phil(
                   [p EXCEPT !.invert_rotation_axis = FALSE],
                   call.reference).ret
    IN  /\ ret.kind = "single"
        /\ plain.kind = "single"
        /\ plain.rotation_axis = PlainAxis(p, StartingGoniometer)
        /\ ret.rotation_axis = NegVec(PlainAxis(p, StartingGoniometer))
        /\ ret.fixed_rotation = plain.fixed_rotation
        /\ ret.setting_rotation = plain.setting_rotation
        /\ ret.fixed_rotation =
             IF IsNone(p.fixed_rotation)
             THEN StartingGoniometer.fixed_rotation ELSE Get(p.fixed_rotation)
        /\ ret.setting_rotation =
             IF IsNone(p.setting_rotation)
             THEN StartingGoniometer.setting_rotation
             ELSE Get(p.setting_rotation)

\* an axis and a fixed rotation supplied with the flag, over a reference
\* whose axis differs from the supplied one
C18_Witness ==
  /\ SingleWorkerCall
  /\ call.params.invert_rotation_axis
  /\ ~IsNone(call.reference)
  /\ call.params.axis = Some(<<0, 1, 0>>)
  /\ Before.rotation_axis = <<1, 0, 0>>
  /\ ~IsNone(call.params.fixed_rotation)
  /\ ret.kind = "single"
  /\ ret.rotation_axis = <<0, -1, 0>>
  /\ ret.fixed_rotation = Rotation
  /\ After = ret

\* C19: a from_phil call that fails while overriding a reference leaves
\* the reference exactly as it was before the call.
C19_FailedOverrideAtomic ==
  (FromPhilCall /\ ~IsNone(call.reference) /\ IsError(ret)) =>
    reference = call.reference

\* C20: from_phil leaves the option object as it was given.
C20_ParamsUnchanged ==
  FromPhilCall => params = Some(call.params)

----------------------------------------------------------------------------
(* Claims about the caches of the format adapters *)

\* the last call was op on an instance of cls
AdapterCalled(op, cls) ==
  /\ call.op = op
  /\ call.cls = cls

\* pixel by pixel, whether the first image of file f is nonzero
NonzeroInFirstImage(f) == [i \in 1..Len(Data(f)[1]) |-> Data(f)[1][i] # 0]

\* C16: no value cached while reading one file is returned to an instance
\* opened on a different file: the image count and the detector of a
\* FormatHDF5ESRF instance, the static mask of a FormatHDF5ESRFJungfrau4M
\* instance (asked for directly or built into its detector) and the
\* detector model of a FormatNXmxStillsWithScan instance
\* are those of the instance's own file.
C16_CachesKeyedByFile ==
  /\ AdapterCalled("get_num_images", "FormatHDF5ESRF") =>
       ret = Value(Len(Data(call.image_file)))
  /\ AdapterCalled("_detector", "FormatHDF5ESRF") =>
       /\ ret.kind = "value"
       /\ \A i \in 1..Len(Data(call.image_file)[1]) :
            ret.value.mask[i] = 0 <=> NonzeroInFirstImage(call.image_file)[i]
  /\ AdapterCalled("get_static_mask", "FormatHDF5ESRFJungfrau4M") =>
       ret = Value(NonzeroInFirstImage(call.image_file))
  /\ AdapterCalled("_detector", "FormatHDF5ESRFJungfrau4M") =>
       /\ ret.kind = "value"
       /\ ret.value.mask = NonzeroInFirstImage(call.image_file)
  /\ \A i \in 1..Len(instances) :
       instances[i].cls = "FormatNXmxStillsWithScan" =>
         Get(instances[i].detector_model).described_by
           = instances[i].image_file

\* the files FormatHDF5ESRF instances were opened on
ESRFFiles ==
  {instances[i].image_file :
     i \in {j \in 1..Len(instances) : instances[j].cls = "FormatHDF5ESRF"}}

\* each file was read into each cache once if an instance was opened on
\* it and never otherwise, and holds an entry, that of the file, in both
ESRFReadOnce ==
  /\ DOMAIN cache.cached_n_images = ESRFFiles
  /\ DOMAIN cache.cached_first_image = ESRFFiles
  /\ DOMAIN reads.n_images = ESRFFiles
  /\ DOMAIN reads.first_image = ESRFFiles
  /\ \A f \in ESRFFiles :
       /\ reads.n_images[f] = 1
       /\ reads.first_image[f] = 1
       /\ cache.cached_n_images[f] = Len(Data(f))
       /\ cache.cached_first_image[f] = PerPhoton(Data(f)[1])

\* get_num_images and _detector find the entry of their file
ESRFFound ==
  (/\ call.op \in {"get_num_images", "_detector"}
   /\ call.cls = "FormatHDF5ESRF") => ret.kind = "value"

\* an entry of either cache is in the cache after the step, unchanged
ESRFEntriesKept ==
  /\ \A f \in DOMAIN cache.cached_n_images :
       /\ f \in DOMAIN cache'.cached_n_images
       /\ cache'.cached_n_images[f] = cache.cached_n_images[f]
  /\ \A f \in DOMAIN cache.cached_first_image :
       /\ f \in DOMAIN cache'.cached_first_image
       /\ cache'.cached_first_image[f] = cache.cached_first_image[f]

\* C17: the FormatHDF5ESRF caches are read-through: over any sequence of
\* _start calls the image count and the first image of a file are computed
\* on the first _start for that file only, an entry once inserted is never
\* replaced or removed, and after _start both caches hold the entry of the
\* instance's file, so that get_num_images and _detector find one.
C17_ReadThrough ==
  /\ [](ESRFReadOnce /\ ESRFFound)
  /\ [][ESRFEntriesKept]_vars

\* three instances, two of them on the same file, the second of which is
\* asked for its image count
C17_Witness ==
  /\ Len(instances) = 3
  /\ \A i \in 1..3 : instances[i].cls = "FormatHDF5ESRF"
  /\ instances[1].image_file = "a.h5"
  /\ instances[2].image_file = "b.h5"
  /\ instances[3].image_file = "a.h5"
  /\ reads.n_images["a.h5"] = 1
  /\ reads.first_image["a.h5"] = 1
  /\ AdapterCalled("get_num_images", "FormatHDF5ESRF")
  /\ call.image_file = "a.h5"
  /\ ret = Value(3)

----------------------------------------------------------------------------
(* Claims about the termination of imgCIF_H *)

\* C21: the walk over the dependency map from the root "." ends for every
\* header, repeated axis ids and mutually dependent axes included, and the
\* model returned holds at most as many axes as the header has goniometer
\* axes.
C21_WalkTerminates ==
  CifCall =>
    /\ ret.kind # "hang"
    /\ ret.kind = "multi" =>
         Len(ret.names) <= Cardinality(GonioIds(TheHeader))

----------------------------------------------------------------------------
====
